---- MODULE Spec2Model ----
(***************************************************************************)
(* Broadcast encryption of src/src/lib.rs (Dubois, Guillevic, Sengelin Le  *)
(* Breton): BroadcastChannel::init_participants, BroadcastChannel::encrypt *)
(* and Recipient::decrypt.                                                 *)
(*                                                                         *)
(* Group elements are represented by their discrete logarithm with respect *)
(* to the canonical generator of their group: G1, G2 and GT are cyclic of  *)
(* the same prime order FrOrder, so a G1/G2 point is a residue, point      *)
(* addition is addition of residues, scalar multiplication is              *)
(* multiplication of residues, the pairing e(aP, bQ) = e(P, Q)^(ab) is the *)
(* product of the residues and division in GT is subtraction of residues.  *)
(* Vectors are Rust Vec's: 0-based, accessed through At, and an access out *)
(* of range panics.                                                        *)
(***************************************************************************)
EXTENDS Integers, Sequences, FiniteSets, TLC

\* Largest number of participants handed to init_participants.
MaxN == 2
\* Longest slice of recipient ids handed to encrypt.
MaxLen == 2

\* Order of the scalar field E::Fr and of the groups G1, G2, GT (a prime).
FrOrder == 7
Fr == 0..(FrOrder - 1)

\* E::G1Projective::prime_subgroup_generator(), E::G2Projective::...
generator_p == 1
generator_q == 1

\* point *= scalar
ScalarMul(point, scalar) == (point * scalar) % FrOrder
\* point += point
PointAdd(a, b) == (a + b) % FrOrder
\* E::pairing(g1, g2)
pairing(g1, g2) == (g1 * g2) % FrOrder
\* `*=` written for `/=`
GtMul(a, b) == (a + b) % FrOrder
\* K /= denominator
GtDiv(a, b) == (a - b + FrOrder) % FrOrder

\* vec[i] of a Rust Vec (0-based); InBounds is the bounds check of the access
InBounds(vec, i) == i >= 0 /\ i < Len(vec)
At(vec, i) == vec[i + 1]

\* counter = generator; push; then `count` times: counter *= alpha; push
RECURSIVE PowerPoints(_, _, _)
PowerPoints(gen, a, count) ==
    IF count = 0 THEN <<gen>>
    ELSE LET prev == PowerPoints(gen, a, count - 1)
         IN  Append(prev, ScalarMul(prev[Len(prev)], a))

\* a loop bound of n instead of 2 * n
p_points_vec_short(n, a) == PowerPoints(generator_p, a, n)
\* the commented-out `p_points_vec.remove(n + 1)` taken
p_points_vec_removed(n, a) ==
    LET full == PowerPoints(generator_p, a, 2 * n)
    IN  SubSeq(full, 1, n + 1) \o SubSeq(full, n + 3, Len(full))
\* lines 79-91: generator followed by 2n successive multiples by alpha
p_points_vec(n, a) == PowerPoints(generator_p, a, 2 * n)
\* lines 81-99: generator followed by n successive multiples by alpha
q_points_vec(n, a) == PowerPoints(generator_q, a, n)

\* lines 106-121: recipient i holds Q[i] and gamma * P[i]
MakeParticipants(n, a, g) ==
    [i \in 1..n |->
        [identifier  |-> i,
         public_key  |-> At(q_points_vec(n, a), i),
         private_key |-> ScalarMul(At(p_points_vec(n, a), i), g)]]

NoChannel == [number_participants |-> 0,
              broadcaster_pk_g1 |-> <<>>,
              broadcaster_pk_g2 |-> <<>>]

\* lines 69-133.  `q_points_vec[..2]` panics when the vector is shorter than 2.
init_participants(n, a, g) ==
    LET point_v == ScalarMul(generator_p, g)
        p == Append(p_points_vec(n, a), point_v)
        q == q_points_vec(n, a)
    IN  IF Len(q) < 2
        THEN [status |-> "panic", channel |-> NoChannel, participants |-> <<>>]
        ELSE [status |-> "ok",
              channel |-> [number_participants |-> n,
                           broadcaster_pk_g1 |-> p,
                           broadcaster_pk_g2 |-> SubSeq(q, 1, 2)],
              participants |-> MakeParticipants(n, a, g)]

RECURSIVE SumAt(_, _)
\* sum of vec[idxs[1]], vec[idxs[2]], ... (repeated `+=`)
SumAt(vec, idxs) ==
    IF idxs = <<>> THEN 0
    ELSE PointAdd(At(vec, Head(idxs)), SumAt(vec, Tail(idxs)))

\* an off-by-one in the header index
EncIndexOffByOne(n, index) == n + 2 - index
\* line 156: self.number_participants + 1 - index  (negative: usize underflow)
EncIndex(n, index) == n + 1 - index

\* lines 137-162.  An id above n + 1 underflows the usize subtraction: a panic
\* with overflow checks, and without them a wrapped index far beyond the
\* vector, which panics as well.
encrypt(ch, S, kk) ==
    LET n == ch.number_participants
        g1 == ch.broadcaster_pk_g1
        g2 == ch.broadcaster_pk_g2
        last == Len(g1) - 1
        idxs == [p \in 1..Len(S) |-> EncIndex(n, S[p])]
        ok == /\ InBounds(g2, 1) /\ InBounds(g2, 0)
              /\ InBounds(g1, n) /\ InBounds(g1, last)
              /\ \A p \in 1..Len(S) : InBounds(g1, idxs[p])
    IN  IF ~ok
        THEN [status |-> "panic", set_recipients |-> S, k |-> kk,
              ctx_0 |-> 0, ctx_1 |-> 0, K |-> 0, reads |-> <<>>]
        ELSE [status |-> "ok", set_recipients |-> S, k |-> kk,
              ctx_0 |-> ScalarMul(PointAdd(At(g1, last), SumAt(g1, idxs)), kk),
              ctx_1 |-> ScalarMul(At(g2, 0), kk),
              K     |-> pairing(At(g1, n), ScalarMul(At(g2, 1), kk)),
              reads |-> <<n, last>> \o idxs]

\* the two identifiers exchanged
DecIndexSwapped(n, index, identifier) == n + 1 - identifier + index
\* line 40: channel.number_participants + 1 - index + self.identifier
DecIndex(n, index, identifier) == n + 1 - index + identifier

\* the 1-based identifier compared as a 0-based position
OthersOffByOne(S, identifier) ==
    LET NotNext(j) == j # identifier + 1 IN SelectSeq(S, NotNext)
\* lines 34-37: the ids of the slice that are not the recipient's own
Others(S, identifier) ==
    LET NotSelf(j) == j # identifier IN SelectSeq(S, NotSelf)

\* lines 23-47
decrypt(rcp, S, ch, c0, c1) ==
    LET n == ch.number_participants
        g1 == ch.broadcaster_pk_g1
        oth == Others(S, rcp.identifier)
        idxs == [p \in 1..Len(oth) |-> DecIndex(n, oth[p], rcp.identifier)]
        ok == \A p \in 1..Len(oth) :
                 /\ n + 1 - oth[p] >= 0
                 /\ InBounds(g1, idxs[p])
        acc == PointAdd(rcp.private_key, SumAt(g1, idxs))
    IN  IF ~ok
        THEN [status |-> "panic", identifier |-> rcp.identifier,
              K |-> 0, acc |-> 0, reads |-> <<>>]
        ELSE [status |-> "ok", identifier |-> rcp.identifier,
              K |-> GtDiv(pairing(c0, rcp.public_key), pairing(acc, c1)),
              acc |-> acc, reads |-> idxs]

VARIABLES
    setup,          \* the call of init_participants: status, n and the scalars drawn
    channel,        \* the BroadcastChannel returned by init_participants
    participants,   \* the Vec<Recipient> returned by init_participants
    enc,            \* the last call of encrypt: its slice, scalar and result
    dec             \* the last call of decrypt: its recipient and result

vars == <<setup, channel, participants, enc, dec>>

NoEnc == [status |-> "none", set_recipients |-> <<>>, k |-> 0,
          ctx_0 |-> 0, ctx_1 |-> 0, K |-> 0, reads |-> <<>>]
NoDec == [status |-> "none", identifier |-> 0, K |-> 0, acc |-> 0, reads |-> <<>>]

\* slices of at most m ids
Slices(ids, m) == UNION {[1..l -> ids] : l \in 0..m}

Init ==
    /\ setup = [status |-> "none", n |-> 0, alpha |-> 0, gamma |-> 0]
    /\ channel = NoChannel
    /\ participants = <<>>
    /\ enc = NoEnc
    /\ dec = NoDec

\* BroadcastChannel::init_participants(n, rng); alpha and gamma are E::Fr::rand(rng)
Setup ==
    /\ setup.status = "none"
    /\ \E n \in 0..MaxN, a \in Fr, g \in Fr :
          LET r == init_participants(n, a, g)
          IN  /\ setup' = [status |-> r.status, n |-> n, alpha |-> a, gamma |-> g]
              /\ channel' = r.channel
              /\ participants' = r.participants
    /\ UNCHANGED <<enc, dec>>

\* channel.encrypt(&set_recipients, rng); k is E::Fr::rand(rng).  The ids are
\* usize values: 0, the range 1..n, n + 1 and one above it.  The functions are
\* pure, so one call per run covers every call.
Encrypt ==
    /\ setup.status = "ok"
    /\ enc.status = "none"
    /\ \E S \in Slices(0..(channel.number_participants + 2), MaxLen), kk \in Fr :
          enc' = encrypt(channel, S, kk)
    /\ UNCHANGED <<setup, channel, participants, dec>>

\* participant.decrypt(&set_recipients, &channel, &ctx_0, &ctx_1) on the slice
\* and header of the last encrypt
Decrypt ==
    /\ enc.status = "ok"
    /\ \E r \in 1..Len(participants) :
          dec' = decrypt(participants[r], enc.set_recipients, channel,
                         enc.ctx_0, enc.ctx_1)
    /\ UNCHANGED <<setup, channel, participants, enc>>

Next == Setup \/ Encrypt \/ Decrypt

Spec == Init /\ [][Next]_vars

(***************************************************************************)
(* Properties                                                              *)
(***************************************************************************)
N == channel.number_participants
G1pk == channel.broadcaster_pk_g1
G2pk == channel.broadcaster_pk_g2
SetS == enc.set_recipients
IdsOf(S) == {S[p] : p \in 1..Len(S)}
DupFree(S) == Cardinality(IdsOf(S)) = Len(S)
InRange(S) == IdsOf(S) \subseteq 1..N

RECURSIVE Pow(_, _)
\* alpha^e in Fr
Pow(a, e) == IF e = 0 THEN 1 ELSE (a * Pow(a, e - 1)) % FrOrder

RECURSIVE Dedup(_)
\* the slice with every repeated id dropped after its first occurrence
Dedup(S) ==
    IF S = <<>> THEN <<>>
    ELSE LET init == Dedup(SubSeq(S, 1, Len(S) - 1))
             x == S[Len(S)]
         IN  IF x \in IdsOf(init) THEN init ELSE Append(init, x)

\* C1: a recipient whose identifier is in the non-empty, duplicate-free slice
\* S of ids in 1..n recovers from the header of encrypt(S) exactly the session
\* key K that encrypt(S) returned.
C1_RoundTrip ==
    (/\ dec.status # "none"
     /\ SetS # <<>> /\ DupFree(SetS) /\ InRange(SetS)
     /\ dec.identifier \in IdsOf(SetS))
    => (dec.status = "ok" /\ dec.K = enc.K)

C1_Witness ==
    /\ dec.status = "ok"
    /\ Len(SetS) = 2 /\ DupFree(SetS) /\ InRange(SetS)
    /\ dec.identifier \in IdsOf(SetS)
    /\ setup.alpha > 1 /\ setup.gamma > 0 /\ enc.k > 0
    /\ dec.K = enc.K /\ enc.K # 0

\* C2: no G1 entry of the published parameters equals index n+1 of the
\* alpha-power sequence, alpha^(n+1) * generatorG1.
C2_WithheldNeverPublished ==
    setup.status = "ok"
    => \A i \in 0..(Len(G1pk) - 1) :
          At(G1pk, i) # ScalarMul(generator_p, Pow(setup.alpha, N + 1))

\* C3: with alpha and k nonzero, a recipient whose identifier is not in the
\* non-empty slice S of ids in 1..n obtains a value different from the K of
\* encrypt(S).
C3_NonMemberExcluded ==
    (/\ dec.status # "none"
     /\ SetS # <<>> /\ InRange(SetS)
     /\ dec.identifier \notin IdsOf(SetS)
     /\ setup.alpha # 0 /\ enc.k # 0)
    => (dec.status = "ok" /\ dec.K # enc.K)

C3_Witness ==
    /\ dec.status = "ok"
    /\ SetS # <<>> /\ InRange(SetS) /\ N >= 2
    /\ Len(dec.reads) = Len(SetS)
    /\ dec.identifier \notin IdsOf(SetS)
    /\ setup.alpha > 1 /\ setup.gamma > 0 /\ enc.k > 0
    /\ dec.K # enc.K

\* C4: encrypt of an empty slice, or of a slice holding an id outside 1..n,
\* fails with InvalidParameter and returns no header and no session key.
C4_EncryptRejectsInvalid ==
    (enc.status # "none" /\ (SetS = <<>> \/ ~InRange(SetS)))
    => (enc.status = "InvalidParameter"
        /\ enc.ctx_0 = NoEnc.ctx_0 /\ enc.ctx_1 = NoEnc.ctx_1 /\ enc.K = NoEnc.K
        /\ enc.reads = <<>>)

\* C5: for a slice S of ids in 1..n, encrypt(S) and encrypt(dedup(S)) with the
\* same scalar k return the same (C0, C1, K).
C5_DuplicatesCountOnce ==
    (enc.status = "ok" /\ InRange(SetS))
    => LET d == encrypt(channel, Dedup(SetS), enc.k)
       IN  <<enc.ctx_0, enc.ctx_1, enc.K>> = <<d.ctx_0, d.ctx_1, d.K>>

\* C6: decrypt run by a recipient whose identifier is not in the slice S of
\* ids in 1..n completes and returns a GT value: no panic, no access out of
\* range.
C6_DecryptNeverFails ==
    (/\ dec.status # "none"
     /\ InRange(SetS)
     /\ dec.identifier \notin IdsOf(SetS))
    => (dec.status = "ok" /\ dec.K \in Fr)

C6_Witness ==
    /\ dec.status = "ok"
    /\ SetS # <<>> /\ InRange(SetS)
    /\ dec.identifier \notin IdsOf(SetS)
    /\ \E p \in 1..Len(dec.reads) : dec.reads[p] > N + 1

\* C7: setup(0) fails with the error value InvalidParameter and produces no
\* parameters and no recipients; setup(n) succeeds for every n >= 1.
C7_SetupZeroInvalidParameter ==
    setup.status # "none"
    => IF setup.n = 0
       THEN setup.status = "InvalidParameter"
            /\ channel = NoChannel /\ participants = <<>>
       ELSE setup.status = "ok"

C9_WithheldNeverRead ==
    InRange(SetS)
    => /\ enc.status # "none" =>
             (enc.status = "ok"
              /\ \A p \in 1..Len(enc.reads) : enc.reads[p] # N + 1)
       /\ dec.status # "none" =>
             (dec.status = "ok"
              /\ \A p \in 1..Len(dec.reads) : dec.reads[p] # N + 1)

C9_Witness ==
    /\ dec.status = "ok"
    /\ Len(SetS) = 2 /\ InRange(SetS)
    /\ Len(dec.reads) >= 1
    /\ Len(enc.reads) = 4

\* the recipient of the last decrypt
Self == participants[dec.identifier]

\* C10 as stated: recipient i starts from its private key and adds, for each j
\* of S other than i, the point at index n+1-i+j.
C10_IndexAsStated ==
    dec.status = "ok"
    => LET oth == Others(SetS, dec.identifier)
           expected == [p \in 1..Len(oth) |-> N + 1 - dec.identifier + oth[p]]
       IN  /\ dec.reads = expected
           /\ dec.acc = PointAdd(Self.private_key, SumAt(G1pk, expected))

\* C10 amended: recipient i starts from its private key and adds, for each j
\* of S other than i, exactly the point at index n+1-j+i (n plus one, minus the
\* other member's id, plus the recipient's own identifier), and adds nothing
\* for j = i.
C10_DecryptIndex ==
    dec.status = "ok"
    => LET NotSelf(j) == j # dec.identifier
           oth == SelectSeq(SetS, NotSelf)
           expected == [p \in 1..Len(oth) |-> N + 1 - oth[p] + dec.identifier]
       IN  /\ dec.reads = expected
           /\ dec.acc = PointAdd(Self.private_key, SumAt(G1pk, expected))

C10_Witness ==
    /\ dec.status = "ok"
    /\ Len(SetS) = 2 /\ DupFree(SetS) /\ InRange(SetS)
    /\ dec.identifier \in IdsOf(SetS)
    /\ Len(dec.reads) = 1
    /\ dec.reads[1] # N + 1
====
